---- MODULE Spec2Model ----
(***************************************************************************)
(* 'CodeChecker store' (libcodechecker/libhandlers/store.py): one run of   *)
(* main(args), with assemble_zip and __get_run_name, as a state machine.   *)
(*                                                                         *)
(* The file system and the remote server are the environment.  What the    *)
(* run reads from the file system is chosen when it is first read and is   *)
(* remembered (observed), so a second read of the same object sees the     *)
(* same answer.  Objects never read keep a fixed default.                  *)
(***************************************************************************)
EXTENDS Integers, Sequences, FiniteSets, TLC

\* ------------------------------------------------------------------ bounds
\* longest list of input paths given on the command line
MaxInputs == 2
\* number of distinct file contents a source file may hold
MaxBytes == 2

\* --------------------------------------------------------------- constants
MAX_UPLOAD_SIZE == 1 * 1024 * 1024 * 1024

\* ------------------------------------------------------------------- paths
\* A path is the sequence of its components; an absolute path starts with
\* the component "/".  A string is a sequence of tokens, "" is <<>>.
IsAbs(p) == Len(p) > 0 /\ p[1] = "/"

\* os.path.join(a, b): an absolute b discards a
PathJoin(a, b) == IF IsAbs(b) THEN b ELSE a \o b

\* f.lstrip('/')
Lstrip(p) == IF IsAbs(p) THEN Tail(p) ELSE p

\* the name ZipFile.write stores an entry under: leading separators of the
\* arcname are removed
ArcName(p) == IF IsAbs(p) THEN Tail(p) ELSE p

\* last component of a path
FileName(p) == p[Len(p)]

\* f.endswith(".plist")
EndsWithPlist(f) == FileName(f) \in {"A.plist", "B.plist"}

\* f == 'metadata.json': the whole string, not its last component
IsMetadataName(f) == f = <<"metadata.json">>

\* --------------------------------------------------- the file system's shape
D1 == <<"/", "d1">>
D2 == <<"/", "d2">>
FileInput == <<"/", "f", "A.plist">>
Gone == <<"/", "gone">>

Dirs == {D1, D2}
InputPaths == {D1, D2, FileInput, Gone}
ChildNames == {"A.plist", "metadata.json"}
SrcA == <<"/", "src", "a.c">>
SrcB == <<"/", "src", "b.c">>
SourcePaths == {SrcA, SrcB}
PlistFiles == {PathJoin(d, <<"A.plist">>) : d \in Dirs} \cup {FileInput}

\* os.path.exists, os.path.isdir, os.path.isfile of an input path
PathExists(p) == p \in Dirs \cup {FileInput}
IsDir(p) == p \in Dirs
IsFile(p) == p = FileInput

\* sequences over S without repetition, of length at most n
RECURSIVE NoRepeatSeqs(_, _)
NoRepeatSeqs(S, n) ==
    IF n = 0 \/ S = {} THEN {<<>>}
    ELSE {<<>>} \cup UNION {{<<x>> \o t : t \in NoRepeatSeqs(S \ {x}, n - 1)} : x \in S}

\* what os.walk may list as the files of a directory, in any order
Listings == NoRepeatSeqs(ChildNames, Cardinality(ChildNames))
\* the source files each report references, in the order of its 'files' list
Refs(plist_file) ==
    IF plist_file = PathJoin(D1, <<"A.plist">>) THEN <<SrcA, SrcB>>
    ELSE IF plist_file = PathJoin(D2, <<"A.plist">>) THEN <<SrcB, SrcA>>
    ELSE <<SrcA>>
\* the outcome of parse_plist: it raises, or returns the referenced files
ParseResults(plist_file) ==
    {[ok |-> FALSE, files |-> <<>>], [ok |-> TRUE, files |-> Refs(plist_file)]}
\* a source file: 0 when it is not on disk, else its bytes
Bytes == 1..MaxBytes
DiskValues == {0} \cup Bytes
\* the name a metadata.json declares: <<>> without a 'name' key, else <<name>>
ProjectName(d) == IF d = D1 THEN <<"p1">> ELSE <<"p2">>
MetaValues(d) == {<<>>, <<ProjectName(d)>>}

\* sha256 of a file's bytes, as a hex digest
Sha256(b) == <<"sha256", b>>
Hashes == {Sha256(b) : b \in Bytes}

InputLists == UNION {[1..n -> InputPaths] : n \in 1..MaxInputs}
\* --name: absent, or the given string
NameArgs == {[given |-> FALSE, value |-> <<>>], [given |-> TRUE, value |-> <<>>],
             [given |-> TRUE, value |-> <<"run">>]}

VARIABLES
    pc,             \* position of main
    args_input,     \* args.input
    args_name,      \* args.name: [given, value]
    exit_status,    \* status of the process once pc = "done"
    has_perm,       \* result of check_permission
    zip_exists,     \* the temporary file is on disk
    zip_size,       \* os.stat(zip_file).st_size
    zipf,           \* entries of the archive, in the order written
    hash_to_file,   \* assemble_zip.hash_to_file
    file_to_hash,   \* assemble_zip.file_to_hash
    i,              \* index of input_path in inputs
    files,          \* files of the current input_path
    j,              \* index of f in files
    necessary_hashes,
    listing, meta, parsed, disk,    \* the file system
    observed,       \* objects of the file system read so far
    calls,          \* calls made (remote calls, __get_run_name, mkstemp), in order
    hashed,         \* (path, hash) pairs in the order they were hashed
    docs            \* report and metadata documents met, with what was done

fsvars == <<listing, meta, parsed, disk, observed>>
asmvars == <<zipf, hash_to_file, file_to_hash, i, files, j, hashed, docs>>
vars == <<pc, args_input, args_name, exit_status, has_perm, zip_exists, zip_size,
          necessary_hashes, calls, fsvars, asmvars>>

EmptyMap == [x \in {} |-> <<>>]

Init ==
    /\ pc = "name"
    /\ args_input \in InputLists
    /\ args_name \in NameArgs
    /\ exit_status = 0
    /\ has_perm = FALSE
    /\ zip_exists = FALSE
    /\ zip_size = 0
    /\ zipf = <<>>
    /\ hash_to_file = EmptyMap
    /\ file_to_hash = EmptyMap
    /\ i = 0
    /\ files = <<>>
    /\ j = 1
    /\ necessary_hashes = {}
    /\ listing = [d \in Dirs |-> <<>>]
    /\ meta = [d \in Dirs |-> <<>>]
    /\ parsed = [p \in PlistFiles |-> [ok |-> FALSE, files |-> <<>>]]
    /\ disk = [p \in SourcePaths |-> 0]
    /\ observed = {}
    /\ calls = <<>>
    /\ hashed = <<>>
    /\ docs = <<>>

\* ------------------------------------------------------- reading the disk
\* new is what the file system shows after the objects in reading are read:
\* an object read before shows what it showed, an object not read keeps its
\* default
Reads(tag, old, new, reading) ==
    \A x \in DOMAIN old : <<tag, x>> \in observed \/ x \notin reading => new[x] = old[x]

Tagged(tag, S) == {<<tag, x>> : x \in S}

\* ------------------------------------------------------------ __get_run_name
UnnamedFolder == <<"unnamed result folder">>

\* the names list after the loop over input_list[k..]
RECURSIVE MetaNamesFrom(_, _, _, _)
MetaNamesFrom(inputs, k, lst, mt) ==
    IF k > Len(inputs) THEN <<>>
    ELSE LET input_path == inputs[k]
             here == IF IsDir(input_path)
                        /\ \E n \in 1..Len(lst[input_path]) : lst[input_path][n] = "metadata.json"
                     THEN IF mt[input_path] # <<>> THEN <<mt[input_path][1]>>
                                                   ELSE <<UnnamedFolder>>
                     ELSE <<>>
         IN  here \o MetaNamesFrom(inputs, k + 1, lst, mt)

\* ', '.join(names)
RECURSIVE CommaJoin(_)
CommaJoin(names) ==
    IF Len(names) = 0 THEN <<>>
    ELSE IF Len(names) = 1 THEN names[1]
    ELSE names[1] \o <<", ">> \o CommaJoin(Tail(names))

\* __get_run_name that returns the only declared name, however many
\* metadata.json files without a name there are
GetRunNameDeclaredOnly(inputs, lst, mt) ==
    LET names == MetaNamesFrom(inputs, 1, lst, mt)
        declared == SelectSeq(names, LAMBDA n : n # UnnamedFolder)
    IN  IF Len(declared) = 1
        THEN [found |-> TRUE, name |-> declared[1]]
        ELSE IF Len(names) > 1
        THEN [found |-> TRUE, name |-> <<"multiple projects: ">> \o CommaJoin(names)]
        ELSE [found |-> FALSE, name |-> <<>>]

\* __get_run_name: [found |-> FALSE] is the False it returns
GetRunName(inputs, lst, mt) ==
    LET names == MetaNamesFrom(inputs, 1, lst, mt)
    IN  IF Len(names) = 1 /\ names[1] # UnnamedFolder
        THEN [found |-> TRUE, name |-> names[1]]
        ELSE IF Len(names) > 1
        THEN [found |-> TRUE, name |-> <<"multiple projects: ">> \o CommaJoin(names)]
        ELSE [found |-> FALSE, name |-> <<>>]

\* ------------------------------------------------------------------- main
InputDirs == {args_input[k] : k \in 1..Len(args_input)} \cap Dirs

\* ExitInTry without the finally clause
ExitWithoutFinally(status) ==
    /\ pc' = "done"
    /\ exit_status' = status
    /\ zip_exists' = zip_exists

\* sys.exit(status) or an exception inside the try block: the finally clause
\* removes the temporary file
ExitInTry(status) ==
    /\ pc' = "done"
    /\ exit_status' = status
    /\ zip_exists' = FALSE

\* 'name' in args: no name is generated
NameGiven ==
    /\ pc = "name"
    /\ args_name.given
    /\ pc' = "perm"
    /\ UNCHANGED <<args_input, args_name, exit_status, has_perm, zip_exists, zip_size,
                   necessary_hashes, calls, fsvars, asmvars>>

\* 'name' not in args: __get_run_name(args.input), sys.exit(2) on a falsy result
GenerateName ==
    /\ pc = "name"
    /\ ~args_name.given
    /\ \E lst \in [Dirs -> Listings] :
       \E mt \in [Dirs -> UNION {MetaValues(d) : d \in Dirs}] :
         LET withMeta == {d \in InputDirs :
                            \E n \in 1..Len(lst[d]) : lst[d][n] = "metadata.json"}
             generated == GetRunName(args_input, lst, mt)
         IN  /\ \A d \in Dirs : mt[d] \in MetaValues(d)
             /\ Reads("ls", listing, lst, InputDirs)
             /\ Reads("meta", meta, mt, withMeta)
             /\ listing' = lst
             /\ meta' = mt
             /\ observed' = observed \cup Tagged("ls", InputDirs) \cup Tagged("meta", withMeta)
             /\ calls' = Append(calls, [op |-> "__get_run_name", arg |-> generated])
             /\ IF generated.found /\ generated.name # <<>>
                THEN /\ args_name' = [given |-> TRUE, value |-> generated.name]
                     /\ pc' = "perm"
                     /\ exit_status' = exit_status
                ELSE /\ args_name' = args_name
                     /\ pc' = "done"
                     /\ exit_status' = 2
    /\ UNCHANGED <<args_input, has_perm, zip_exists, zip_size, necessary_hashes,
                   parsed, disk, asmvars>>

\* CheckPermission that logs the denial and goes on
CheckPermissionNoExit ==
    /\ pc = "perm"
    /\ \E granted \in BOOLEAN :
         /\ has_perm' = granted
         /\ calls' = Append(calls, [op |-> "check_permission", arg |-> granted])
         /\ pc' = "mkstemp"
         /\ exit_status' = exit_status
    /\ UNCHANGED <<args_input, args_name, zip_exists, zip_size, necessary_hashes,
                   fsvars, asmvars>>

\* libclient.check_permission(auth_client, PRODUCT_STORE, ...), sys.exit(1) on denial
CheckPermission ==
    /\ pc = "perm"
    /\ \E granted \in BOOLEAN :
         /\ has_perm' = granted
         /\ calls' = Append(calls, [op |-> "check_permission", arg |-> granted])
         /\ IF granted
            THEN pc' = "mkstemp" /\ exit_status' = exit_status
            ELSE pc' = "done" /\ exit_status' = 1
    /\ UNCHANGED <<args_input, args_name, zip_exists, zip_size, necessary_hashes,
                   fsvars, asmvars>>

\* tempfile.mkstemp('.zip')
MakeTemp ==
    /\ pc = "mkstemp"
    /\ zip_exists' = TRUE
    /\ calls' = Append(calls, [op |-> "mkstemp", arg |-> TRUE])
    /\ pc' = "assemble"
    /\ UNCHANGED <<args_input, args_name, exit_status, has_perm, zip_size,
                   necessary_hashes, fsvars, asmvars>>

\* ------------------------------------------------------------ assemble_zip
\* m[k] = v of a dict
Put(m, k, v) == [x \in DOMAIN m \cup {k} |-> IF x = k THEN v ELSE m[x]]

\* CollectFrom with hash_to_file keeping the path it already has for a hash
RECURSIVE CollectFromKeepFirst(_, _, _, _)
CollectFromKeepFirst(refs, k, dk, st) ==
    IF k > Len(refs) THEN [st EXCEPT !.ok = TRUE]
    ELSE LET f == refs[k]
         IN  IF dk[f] = 0 THEN [st EXCEPT !.ok = FALSE]
             ELSE LET content_hash == Sha256(dk[f])
                  IN  CollectFromKeepFirst(refs, k + 1, dk,
                          [ok |-> TRUE,
                           h2f |-> IF content_hash \in DOMAIN st.h2f THEN st.h2f
                                   ELSE Put(st.h2f, content_hash, f),
                           f2h |-> Put(st.f2h, f, content_hash),
                           log |-> Append(st.log, <<f, content_hash>>)])

\* CollectFrom with hash_to_file keyed by the path
RECURSIVE CollectFromKeyedByPath(_, _, _, _)
CollectFromKeyedByPath(refs, k, dk, st) ==
    IF k > Len(refs) THEN [st EXCEPT !.ok = TRUE]
    ELSE LET f == refs[k]
         IN  IF dk[f] = 0 THEN [st EXCEPT !.ok = FALSE]
             ELSE LET content_hash == Sha256(dk[f])
                  IN  CollectFromKeyedByPath(refs, k + 1, dk,
                          [ok |-> TRUE,
                           h2f |-> Put(st.h2f, f, content_hash),
                           f2h |-> Put(st.f2h, f, content_hash),
                           log |-> Append(st.log, <<f, content_hash>>)])

\* CollectFrom with file_to_hash keeping the hash it already has for a path
RECURSIVE CollectFromKeepsFirstHash(_, _, _, _)
CollectFromKeepsFirstHash(refs, k, dk, st) ==
    IF k > Len(refs) THEN [st EXCEPT !.ok = TRUE]
    ELSE LET f == refs[k]
         IN  IF dk[f] = 0 THEN [st EXCEPT !.ok = FALSE]
             ELSE LET content_hash == Sha256(dk[f])
                  IN  CollectFromKeepsFirstHash(refs, k + 1, dk,
                          [ok |-> TRUE,
                           h2f |-> Put(st.h2f, content_hash, f),
                           f2h |-> IF f \in DOMAIN st.f2h THEN st.f2h
                                   ELSE Put(st.f2h, f, content_hash),
                           log |-> Append(st.log, <<f, content_hash>>)])

\* the loop of collect_file_hashes_from_plist over files[k..], reading dk:
\* it returns False at the first file that is not on disk, and has by then
\* hashed the files before it
RECURSIVE CollectFrom(_, _, _, _)
CollectFrom(refs, k, dk, st) ==
    IF k > Len(refs) THEN [st EXCEPT !.ok = TRUE]
    ELSE LET f == refs[k]
         IN  IF dk[f] = 0 THEN [st EXCEPT !.ok = FALSE]
             ELSE LET content_hash == Sha256(dk[f])
                  IN  CollectFrom(refs, k + 1, dk,
                          [ok |-> TRUE,
                           h2f |-> Put(st.h2f, content_hash, f),
                           f2h |-> Put(st.f2h, f, content_hash),
                           log |-> Append(st.log, <<f, content_hash>>)])

\* CollectFileHashes that takes a report that failed to parse as a good one
CollectFileHashesKeepsUnparsed(pr, dk) ==
    LET st == [ok |-> FALSE, h2f |-> hash_to_file, f2h |-> file_to_hash, log |-> hashed]
    IN  IF pr.ok THEN CollectFrom(pr.files, 1, dk, st) ELSE [st EXCEPT !.ok = TRUE]

\* collect_file_hashes_from_plist(plist_file): a parse_plist that raises is
\* logged and None, which is falsy, is returned
CollectFileHashes(pr, dk) ==
    LET st == [ok |-> FALSE, h2f |-> hash_to_file, f2h |-> file_to_hash, log |-> hashed]
    IN  IF pr.ok THEN CollectFrom(pr.files, 1, dk, st) ELSE st

\* the source files collect_file_hashes_from_plist looks at: those up to the
\* first one that is not on disk
FilesRead(pr, dk) ==
    IF ~pr.ok THEN {}
    ELSE {pr.files[k] : k \in {n \in 1..Len(pr.files) :
                                 \A m \in 1..(n - 1) : dk[pr.files[m]] # 0}}

\* zipf.write(filename, arcname)
ZipWrite(z, class, filename, arcname) ==
    Append(z, [class |-> class, name |-> ArcName(arcname), src |-> filename])

\* json.dumps of a dict: the object's members
JsonDumps(m) == {<<k, m[k]>> : k \in DOMAIN m}

\* EnterInput that passes over an input path that does not exist
EnterInputSkipsMissing ==
    /\ pc = "assemble"
    /\ j > Len(files)
    /\ i < Len(args_input)
    /\ LET input_path == args_input[i + 1]
       IN  IF ~PathExists(input_path)
           THEN /\ i' = i + 1
                /\ j' = 1
                /\ files' = <<>>
                /\ UNCHANGED <<pc, exit_status, zip_exists, fsvars, zipf, hash_to_file,
                               file_to_hash, hashed, docs>>
           ELSE /\ i' = i + 1
                /\ j' = 1
                /\ IF IsFile(input_path)
                   THEN /\ files' = <<input_path>>
                        /\ UNCHANGED fsvars
                   ELSE \E lst \in [Dirs -> Listings] :
                          /\ Reads("ls", listing, lst, {input_path})
                          /\ listing' = lst
                          /\ observed' = observed \cup {<<"ls", input_path>>}
                          /\ files' = [k \in 1..Len(lst[input_path]) |-> <<lst[input_path][k]>>]
                          /\ UNCHANGED <<meta, parsed, disk>>
                /\ UNCHANGED <<pc, exit_status, zip_exists, zipf, hash_to_file,
                               file_to_hash, hashed, docs>>
    /\ UNCHANGED <<args_input, args_name, has_perm, zip_size, necessary_hashes, calls>>

\* for input_path in inputs: the path is looked up and its files are listed
EnterInput ==
    /\ pc = "assemble"
    /\ j > Len(files)
    /\ i < Len(args_input)
    /\ LET input_path == args_input[i + 1]
       IN  IF ~PathExists(input_path)
           THEN /\ ExitInTry(1)
                /\ UNCHANGED <<fsvars, asmvars>>
           ELSE /\ i' = i + 1
                /\ j' = 1
                /\ IF IsFile(input_path)
                   THEN /\ files' = <<input_path>>
                        /\ UNCHANGED fsvars
                   ELSE \E lst \in [Dirs -> Listings] :
                          /\ Reads("ls", listing, lst, {input_path})
                          /\ listing' = lst
                          /\ observed' = observed \cup {<<"ls", input_path>>}
                          /\ files' = [k \in 1..Len(lst[input_path]) |-> <<lst[input_path][k]>>]
                          /\ UNCHANGED <<meta, parsed, disk>>
                /\ UNCHANGED <<pc, exit_status, zip_exists, zipf, hash_to_file,
                               file_to_hash, hashed, docs>>
    /\ UNCHANGED <<args_input, args_name, has_perm, zip_size, necessary_hashes, calls>>

\* new is what the source files show when those in reading are read again
\* and may have been rewritten or removed since they were last read
Rereads(old, new, reading) ==
    \A x \in DOMAIN old : x \notin reading => new[x] = old[x]

\* for f in files: one file of the input path; a source file read before
\* shows the bytes it showed (stable), or whatever it holds by now
ProcessFileReading(stable) ==
    /\ pc = "assemble"
    /\ j <= Len(files)
    /\ LET input_path == args_input[i]
           f == files[j]
           plist_file == PathJoin(input_path, f)
       IN  IF EndsWithPlist(f)
           THEN \E pr \in ParseResults(plist_file) : \E dk \in [SourcePaths -> DiskValues] :
                  LET got == CollectFileHashes(pr, dk)
                  IN  /\ <<"plist", plist_file>> \in observed => pr = parsed[plist_file]
                      /\ IF stable THEN Reads("src", disk, dk, FilesRead(pr, dk))
                                   ELSE Rereads(disk, dk, FilesRead(pr, dk))
                      /\ parsed' = [parsed EXCEPT ![plist_file] = pr]
                      /\ disk' = dk
                      /\ observed' = observed \cup {<<"plist", plist_file>>}
                                              \cup Tagged("src", FilesRead(pr, dk))
                      /\ hash_to_file' = got.h2f
                      /\ file_to_hash' = got.f2h
                      /\ hashed' = got.log
                      /\ zipf' = IF got.ok
                                 THEN ZipWrite(zipf, "report", plist_file,
                                               PathJoin(<<"reports">>, f))
                                 ELSE zipf
                      /\ docs' = Append(docs, [file |-> plist_file, kind |-> "report",
                                               parse |-> pr, stored |-> got.ok])
                      /\ UNCHANGED <<listing, meta>>
           ELSE /\ IF IsMetadataName(f)
                   THEN /\ zipf' = ZipWrite(zipf, "metadata", plist_file,
                                            PathJoin(<<"reports">>, f))
                        /\ docs' = Append(docs, [file |-> plist_file, kind |-> "metadata",
                                                 parse |-> [ok |-> TRUE, files |-> <<>>],
                                                 stored |-> TRUE])
                   ELSE UNCHANGED <<zipf, docs>>
                /\ UNCHANGED <<fsvars, hash_to_file, file_to_hash, hashed>>
    /\ j' = j + 1
    /\ UNCHANGED <<pc, args_input, args_name, exit_status, has_perm, zip_exists, zip_size,
                   necessary_hashes, calls, i, files>>

\* the source files do not change while main runs
ProcessFile == ProcessFileReading(TRUE)

\* the source files may be rewritten or removed by others while main runs
ProcessFileChanged == ProcessFileReading(FALSE)

\* the sizes the compressed archive may have
Sizes == {MAX_UPLOAD_SIZE, MAX_UPLOAD_SIZE + 1}

\* the orders in which file_to_hash.items() may yield the paths in S
Orders(S) == {o \in NoRepeatSeqs(S, Cardinality(S)) : Len(o) = Cardinality(S)}

\* WriteContents with every hashed path written, needed or not
RECURSIVE WriteContentsAll(_, _, _)
WriteContentsAll(z, order, needed) ==
    IF order = <<>> THEN z
    ELSE WriteContentsAll(ZipWrite(z, "content", Head(order),
                                   PathJoin(<<"root">>, Lstrip(Head(order)))),
                          Tail(order), needed)

\* the content entries written for the paths of order whose hash is needed
RECURSIVE WriteContents(_, _, _)
WriteContents(z, order, needed) ==
    IF order = <<>> THEN z
    ELSE LET f == Head(order)
         IN  WriteContents(IF file_to_hash[f] \in needed
                           THEN ZipWrite(z, "content", f, PathJoin(<<"root">>, Lstrip(f)))
                           ELSE z,
                           Tail(order), needed)

\* AssembledEntries with no content_hashes.json when nothing was hashed
AssembledEntriesSkipEmpty(z, order, answer) ==
    IF DOMAIN file_to_hash = {} THEN z
    ELSE Append(WriteContents(z, order, answer),
                [class |-> "manifest", name |-> <<"content_hashes.json">>,
                 src |-> JsonDumps(file_to_hash)])

\* AssembledEntries with content_hashes.json written before the contents
AssembledEntriesManifestFirst(z, order, answer) ==
    WriteContents(Append(z, [class |-> "manifest", name |-> <<"content_hashes.json">>,
                             src |-> JsonDumps(file_to_hash)]),
                  order, answer)

\* the dict order is one of the orders of its keys; the entries written after
\* the loop: a content entry for each path whose hash the server needs, then
\* content_hashes.json
AssembledEntries(z, order, answer) ==
    Append(WriteContents(z, order, answer),
           [class |-> "manifest", name |-> <<"content_hashes.json">>,
            src |-> JsonDumps(file_to_hash)])

\* after the loop: client.getMissingContentHashes answers, the contents and
\* content_hashes.json are written, the archive is closed and compressed
Reconcile ==
    /\ pc = "assemble"
    /\ j > Len(files)
    /\ i = Len(args_input)
    /\ calls' = Append(calls, [op |-> "getMissingContentHashes",
                               arg |-> DOMAIN hash_to_file, ok |-> TRUE])
    /\ \E answer \in SUBSET (DOMAIN hash_to_file) :
       \E order \in Orders(DOMAIN file_to_hash) :
       \E size \in Sizes :
         /\ necessary_hashes' = answer
         /\ zipf' = AssembledEntries(zipf, order, answer)
         /\ zip_size' = size
    /\ pc' = "sizecheck"
    /\ UNCHANGED <<args_input, args_name, exit_status, has_perm, zip_exists, fsvars,
                   hash_to_file, file_to_hash, i, files, j, hashed, docs>>

\* ReconcileFails with the exception swallowed: the run goes on to the size
\* check with nothing reported missing
ReconcileFailsGoesOn ==
    /\ pc = "assemble"
    /\ j > Len(files)
    /\ i = Len(args_input)
    /\ calls' = Append(calls, [op |-> "getMissingContentHashes",
                               arg |-> DOMAIN hash_to_file, ok |-> FALSE])
    /\ pc' = "sizecheck"
    /\ UNCHANGED <<args_input, args_name, exit_status, has_perm, zip_exists, zip_size,
                   necessary_hashes, fsvars, asmvars>>

\* client.getMissingContentHashes raises
ReconcileFails ==
    /\ pc = "assemble"
    /\ j > Len(files)
    /\ i = Len(args_input)
    /\ calls' = Append(calls, [op |-> "getMissingContentHashes",
                               arg |-> DOMAIN hash_to_file, ok |-> FALSE])
    /\ ExitInTry(1)
    /\ UNCHANGED <<args_input, args_name, has_perm, zip_size, necessary_hashes,
                   fsvars, asmvars>>

\* TooBig with the ceiling never enforced
TooBigNever(size) == FALSE

\* os.stat(zip_file).st_size > MAX_UPLOAD_SIZE
TooBig(size) == size > MAX_UPLOAD_SIZE

\* the archive is not too big, and reading it back or encoding it raises
EncodeFails ==
    /\ pc = "sizecheck"
    /\ ~TooBig(zip_size)
    /\ ExitInTry(1)
    /\ UNCHANGED <<args_input, args_name, has_perm, zip_size, necessary_hashes, calls,
                   fsvars, asmvars>>

\* an archive that is too big: sys.exit(1); else it is read and base64 encoded
SizeCheck ==
    /\ pc = "sizecheck"
    /\ IF TooBig(zip_size)
       THEN ExitInTry(1)
       ELSE pc' = "transmit" /\ UNCHANGED <<exit_status, zip_exists>>
    /\ UNCHANGED <<args_input, args_name, has_perm, zip_size, necessary_hashes, calls,
                   fsvars, asmvars>>

\* Transmit where a massStoreRun that raises is not taken as a failure
TransmitFailureSilent ==
    /\ pc = "transmit"
    /\ \E ok \in BOOLEAN :
         /\ calls' = Append(calls, [op |-> "massStoreRun", arg |-> args_name.value,
                                    ok |-> ok])
         /\ pc' = "done"
         /\ zip_exists' = FALSE
         /\ exit_status' = exit_status
    /\ UNCHANGED <<args_input, args_name, has_perm, zip_size, necessary_hashes,
                   fsvars, asmvars>>

\* Transmit that calls massStoreRun again after it raised
TransmitRetries ==
    /\ pc = "transmit"
    /\ \E ok \in BOOLEAN :
         /\ calls' = Append(calls, [op |-> "massStoreRun", arg |-> args_name.value,
                                    ok |-> ok])
         /\ IF ok \/ Len(calls) >= 4
            THEN /\ pc' = "done"
                 /\ zip_exists' = FALSE
                 /\ exit_status' = IF ok THEN exit_status ELSE 1
            ELSE UNCHANGED <<pc, zip_exists, exit_status>>
    /\ UNCHANGED <<args_input, args_name, has_perm, zip_size, necessary_hashes,
                   fsvars, asmvars>>

\* client.massStoreRun(args.name, ...) returns or raises
Transmit ==
    /\ pc = "transmit"
    /\ \E ok \in BOOLEAN :
         /\ calls' = Append(calls, [op |-> "massStoreRun", arg |-> args_name.value,
                                    ok |-> ok])
         /\ IF ok THEN /\ pc' = "done"
                       /\ zip_exists' = FALSE
                       /\ exit_status' = exit_status
                  ELSE ExitInTry(1)
    /\ UNCHANGED <<args_input, args_name, has_perm, zip_size, necessary_hashes,
                   fsvars, asmvars>>

Next ==
    \/ NameGiven
    \/ GenerateName
    \/ CheckPermission
    \/ MakeTemp
    \/ EnterInput
    \/ ProcessFile
    \/ Reconcile
    \/ ReconcileFails
    \/ EncodeFails
    \/ SizeCheck
    \/ Transmit

Spec == Init /\ [][Next]_vars

\* The loop of assemble_zip over the inputs alone, entered as main enters it
\* (a name given, the permission granted, the temporary file made), while the
\* source files may change between two readings.  It ends where
\* getMissingContentHashes is called.
InitAssemble ==
    /\ pc = "assemble"
    /\ args_input \in InputLists
    /\ args_name = [given |-> TRUE, value |-> <<"run">>]
    /\ exit_status = 0
    /\ has_perm = TRUE
    /\ zip_exists = TRUE
    /\ zip_size = 0
    /\ zipf = <<>>
    /\ hash_to_file = EmptyMap
    /\ file_to_hash = EmptyMap
    /\ i = 0
    /\ files = <<>>
    /\ j = 1
    /\ necessary_hashes = {}
    /\ listing = [d \in Dirs |-> <<>>]
    /\ meta = [d \in Dirs |-> <<>>]
    /\ parsed = [p \in PlistFiles |-> [ok |-> FALSE, files |-> <<>>]]
    /\ disk = [p \in SourcePaths |-> 0]
    /\ observed = {}
    /\ calls = <<[op |-> "check_permission", arg |-> TRUE], [op |-> "mkstemp", arg |-> TRUE]>>
    /\ hashed = <<>>
    /\ docs = <<>>

NextChanging ==
    \/ EnterInput
    \/ ProcessFileChanged

SpecChanging == InitAssemble /\ [][NextChanging]_vars

\* =================================================================== claims
\* the positions in calls of the calls of op
CallsOf(op) == {k \in 1..Len(calls) : calls[k].op = op}
Called(op) == CallsOf(op) # {}
PermissionDenied == \E k \in CallsOf("check_permission") : calls[k].arg = FALSE
\* a report was parsed or a file was hashed
ReportsTouched == docs # <<>> \/ hashed # <<>>

\* C1: when the permission check returns false the run ends with status 1 and
\* the temporary file is never created, no report is parsed or hashed, and
\* neither getMissingContentHashes nor massStoreRun is called; each of these
\* events comes after a permission check that returned true.
C1_DenialBeforeBundling ==
    /\ PermissionDenied =>
         /\ pc = "done" /\ exit_status = 1
         /\ ~zip_exists
         /\ ~Called("mkstemp") /\ ~Called("getMissingContentHashes")
         /\ ~Called("massStoreRun")
         /\ ~ReportsTouched
    /\ \A k \in 1..Len(calls) :
         calls[k].op \in {"mkstemp", "getMissingContentHashes", "massStoreRun"} =>
           \E m \in 1..(k - 1) : calls[m].op = "check_permission" /\ calls[m].arg = TRUE
    /\ ReportsTouched =>
         \E m \in CallsOf("check_permission") : calls[m].arg = TRUE

C1_Witness == pc = "done" /\ PermissionDenied /\ exit_status = 1

\* C2: in every terminal state of main the temporary file is not on disk.
C2_TempFileRemoved == pc = "done" => ~zip_exists

\* a run that created the file and failed after the archive was assembled
C2_Witness ==
    /\ pc = "done" /\ exit_status = 1
    /\ Called("mkstemp") /\ Called("massStoreRun")
    /\ ~zip_exists

\* C3: massStoreRun is called only with an archive of at most MAX_UPLOAD_SIZE
\* bytes; a bigger archive ends the run with status 1 and without the call.
C3_SizeCeiling ==
    /\ pc = "transmit" \/ Called("massStoreRun") => zip_size <= MAX_UPLOAD_SIZE
    /\ pc = "done" /\ zip_size > MAX_UPLOAD_SIZE =>
         exit_status = 1 /\ ~Called("massStoreRun")

C3_Witness ==
    /\ pc = "done" /\ zip_size = MAX_UPLOAD_SIZE + 1
    /\ exit_status = 1 /\ Called("getMissingContentHashes")

\* ------------------------------------------------------------ the archive
Entries(class) == {k \in 1..Len(zipf) : zipf[k].class = class}
\* assemble_zip has returned
Assembled == pc \in {"sizecheck", "transmit"}
\* the documents that were written to the archive, in the order met
Surviving == SelectSeq(docs, LAMBDA d : d.stored)
\* the report and metadata entries of the archive, in the order written
DocEntries == SelectSeq(zipf, LAMBDA e : e.class \in {"report", "metadata"})

\* the maps the surviving reports docs[k..] alone give
RECURSIVE MapsOfSurviving(_, _)
MapsOfSurviving(k, st) ==
    IF k > Len(docs) THEN st
    ELSE MapsOfSurviving(k + 1,
             IF docs[k].stored THEN CollectFrom(docs[k].parse.files, 1, disk, st) ELSE st)

\* C4 (as claimed): a report that references a file missing from disk is
\* dropped whole: it gets no report entry and leaves nothing in hash_to_file,
\* in file_to_hash, in the getMissingContentHashes query or among the content
\* entries; the maps are those of the input without the dropped report.
C4_DroppedReportLeavesNothing ==
    LET clean == MapsOfSurviving(1, [ok |-> TRUE, h2f |-> EmptyMap, f2h |-> EmptyMap,
                                     log |-> <<>>])
    IN  /\ Len(DocEntries) = Len(Surviving)
        /\ file_to_hash = clean.f2h
        /\ hash_to_file = clean.h2f
        /\ \A k \in CallsOf("getMissingContentHashes") : calls[k].arg = DOMAIN clean.h2f
        /\ \A k \in Entries("content") : zipf[k].src \in DOMAIN clean.f2h

\* the first and the last position in hashed of hash h
FirstHashed(h) == CHOOSE k \in 1..Len(hashed) :
                    hashed[k][2] = h /\ \A m \in 1..(k - 1) : hashed[m][2] # h
LastHashed(h) == CHOOSE k \in 1..Len(hashed) :
                    hashed[k][2] = h /\ \A m \in (k + 1)..Len(hashed) : hashed[m][2] # h
HashedHashes == {hashed[k][2] : k \in 1..Len(hashed)}

\* C5 (as claimed): the path recorded for a hash is the path hashed first with
\* that hash; a later path with the same hash never replaces it.
C5_FirstWriterWins ==
    /\ DOMAIN hash_to_file = HashedHashes
    /\ \A h \in DOMAIN hash_to_file : hash_to_file[h] = hashed[FirstHashed(h)][1]

\* C5 (amended): the last writer wins: the path recorded for a hash is the
\* path hashed last with that hash.
C5_LastWriterWins ==
    /\ DOMAIN hash_to_file = HashedHashes
    /\ \A h \in DOMAIN hash_to_file : hash_to_file[h] = hashed[LastHashed(h)][1]

\* two different paths with the same bytes were hashed one after the other
C5_Witness ==
    /\ Assembled
    /\ \E k, m \in 1..Len(hashed) :
         k < m /\ hashed[k][2] = hashed[m][2] /\ hashed[k][1] # hashed[m][1]

C7_ContentIffMissing ==
    Assembled =>
      /\ \A k \in Entries("content") : zipf[k].src \in SourcePaths
      /\ \A p \in SourcePaths :
           Cardinality({k \in Entries("content") : zipf[k].src = p}) =
             IF p \in DOMAIN file_to_hash /\ file_to_hash[p] \in necessary_hashes
             THEN 1 ELSE 0
      /\ \A p \in DOMAIN file_to_hash :
           \E k \in Entries("manifest") : <<p, file_to_hash[p]>> \in zipf[k].src

\* one hash is needed and another is already on the server
C7_Witness ==
    /\ Assembled
    /\ \E p, q \in DOMAIN file_to_hash :
         /\ file_to_hash[p] \in necessary_hashes
         /\ file_to_hash[q] \notin necessary_hashes
         /\ \E k \in Entries("content") : zipf[k].src = p
         /\ ~\E k \in Entries("content") : zipf[k].src = q

\* C8: an assembled archive holds exactly one content_hashes.json, written after
\* every other entry, holding all of file_to_hash; when the server needs
\* nothing the surviving reports and metadata are there with no content entry;
\* with nothing hashed the run still goes on to massStoreRun.
C8_OneManifestLast ==
    /\ Assembled =>
         /\ Cardinality(Entries("manifest")) = 1
         /\ zipf[Len(zipf)].class = "manifest"
         /\ zipf[Len(zipf)].src = JsonDumps(file_to_hash)
         /\ necessary_hashes = {} =>
              /\ Entries("content") = {}
              /\ Len(zipf) = Len(Surviving) + 1
              /\ \A k \in 1..Len(Surviving) : zipf[k].src = Surviving[k].file
    /\ Called("massStoreRun") => Cardinality(Entries("manifest")) = 1

\* nothing was hashed, a metadata document is in the archive, the store call
\* was made
C8_Witness ==
    /\ Called("massStoreRun")
    /\ DOMAIN hash_to_file = {}
    /\ Entries("metadata") # {}
    /\ zipf[Len(zipf)].class = "manifest" /\ zipf[Len(zipf)].src = {}

\* C9 (as claimed): entries are written in class order: the reports, then the
\* metadata, then the contents, then content_hashes.json.
ClassRank(class) ==
    IF class = "report" THEN 1 ELSE IF class = "metadata" THEN 2
    ELSE IF class = "content" THEN 3 ELSE 4
C9_ClassOrder ==
    \A a, b \in 1..Len(zipf) : a < b => ClassRank(zipf[a].class) <= ClassRank(zipf[b].class)

\* C9 (amended): reports and metadata are written in the order the documents
\* are met (input by input, in listing order), so a metadata entry may come
\* before a report entry; every content entry comes after all of them and
\* content_hashes.json comes last.
C9_DocumentsContentsManifest ==
    /\ \A a, b \in 1..Len(zipf) :
         a < b => (ClassRank(zipf[a].class) <= ClassRank(zipf[b].class)
                   \/ (zipf[a].class = "metadata" /\ zipf[b].class = "report"))
    /\ Len(DocEntries) = Len(Surviving)
    /\ \A k \in 1..Len(DocEntries) :
         DocEntries[k].src = Surviving[k].file /\ DocEntries[k].class = Surviving[k].kind

\* a metadata entry written before a report entry, with contents after them
C9_Witness ==
    /\ Assembled
    /\ \E a, b \in 1..Len(zipf) :
         a < b /\ zipf[a].class = "metadata" /\ zipf[b].class = "report"
    /\ Entries("content") # {}

\* C10 (as claimed): every report and metadata entry is named
\* reports/<file name>, for a child of an input directory and for an input
\* that is the document itself; every content entry is named root/<path
\* without its leading slash>.
C10_EntryAreas ==
    \A k \in 1..Len(zipf) :
      /\ zipf[k].class \in {"report", "metadata"} =>
           zipf[k].name = <<"reports", FileName(zipf[k].src)>>
      /\ zipf[k].class = "content" => zipf[k].name = <<"root">> \o Tail(zipf[k].src)

\* --------------------------------------------------------------- run name
\* the input directories that hold a metadata.json
MetaDirs ==
    {d \in InputDirs : \E n \in 1..Len(listing[d]) : listing[d][n] = "metadata.json"}
\* no name was given and __get_run_name was called
NameDerived == Called("__get_run_name")

\* C11 (as claimed): with no name given and no metadata document declaring a
\* name, whether there are no, one or several metadata documents, the run
\* ends with status 2 before any remote call and before the temporary file is
\* made.
C11_NoDeclaredNameFails ==
    NameDerived /\ (\A d \in MetaDirs : meta[d] = <<>>) =>
      /\ pc = "done" /\ exit_status = 2
      /\ Len(calls) = 1
      /\ ~zip_exists

\* the metadata documents that declare a name
Declared == {d \in MetaDirs : meta[d] # <<>>}

MetaInputs == SelectSeq(args_input, LAMBDA p : p \in MetaDirs)
\* what one metadata.json contributes to the name
NameOf(d) == IF meta[d] # <<>> THEN meta[d][1] ELSE UnnamedFolder

FailedMissing == {k \in CallsOf("getMissingContentHashes") : ~calls[k].ok}

\* C13: when getMissingContentHashes raises, the run is over with status 1
\* and the temporary file removed; that call was the only one of its kind and
\* the last call of the run, so massStoreRun is not called.
C13_ReconcileFailureFatal ==
    FailedMissing # {} =>
      /\ pc = "done" /\ exit_status = 1
      /\ ~zip_exists
      /\ ~Called("massStoreRun")
      /\ Cardinality(CallsOf("getMissingContentHashes")) = 1
      /\ calls[Len(calls)].op = "getMissingContentHashes"

\* getMissingContentHashes raised when asked about some hash
C13_Witness ==
    \E k \in FailedMissing : calls[k].arg # {} /\ docs # <<>>

\* the documents whose parse failed
Unparsed == {n \in 1..Len(docs) : ~docs[n].parse.ok}

\* C14: a report that fails to parse is skipped and nothing else: it is not
\* stored and no entry is made from it, and the step that meets it leaves the
\* archive, both hash maps and the position in the input list as they were,
\* moves on to the next file of the loop and does not end the run; what comes
\* after it is therefore processed from the state it would have had without it.
C14_ParseFailureSkipsOnly ==
    /\ [](\A n \in Unparsed :
            /\ ~docs[n].stored
            /\ \A e \in 1..Len(zipf) :
                 zipf[e].class = "report" => zipf[e].src # docs[n].file)
    /\ [][Len(docs') = Len(docs) + 1 /\ ~docs'[Len(docs')].parse.ok =>
            /\ pc = "assemble" /\ pc' = "assemble"
            /\ exit_status' = exit_status
            /\ zip_exists' = zip_exists
            /\ zipf' = zipf
            /\ hash_to_file' = hash_to_file
            /\ file_to_hash' = file_to_hash
            /\ hashed' = hashed
            /\ i' = i /\ files' = files
            /\ j' = j + 1]_vars

\* massStoreRun returned for a batch with a report that failed to parse and,
\* after it, a report that was stored with its source files hashed
C14_Witness ==
    /\ \E k \in CallsOf("massStoreRun") : calls[k].ok
    /\ pc = "done" /\ exit_status = 0
    /\ \E n \in Unparsed : \E m \in (n + 1)..Len(docs) :
         /\ docs[m].kind = "report" /\ docs[m].stored
         /\ \E e \in 1..Len(zipf) :
              zipf[e].class = "report" /\ zipf[e].src = docs[m].file
    /\ DOMAIN file_to_hash # {}

\* massStoreRun was called and returned
Stored == \E k \in CallsOf("massStoreRun") : calls[k].ok
\* massStoreRun was called and raised
StoreFailed == \E k \in CallsOf("massStoreRun") : ~calls[k].ok
\* __get_run_name was called and gave no usable name
NameUnresolved ==
    \E k \in CallsOf("__get_run_name") : ~calls[k].arg.found \/ calls[k].arg.name = <<>>
\* the loop over the inputs was left at an input path that does not exist
MissingInputMet ==
    /\ Called("mkstemp") /\ ~Called("getMissingContentHashes")
    /\ i < Len(args_input) /\ ~PathExists(args_input[i + 1])
\* the assembled archive was found too big
SizeExceeded ==
    /\ \E k \in CallsOf("getMissingContentHashes") : calls[k].ok
    /\ ~Called("massStoreRun")
    /\ TooBig(zip_size)

\* C15: a run that has ended has status 0, 1 or 2: 0 exactly when
\* massStoreRun was called and returned, 2 exactly when no run name was
\* resolved, and 1 after a denied permission, a missing input path, a
\* failed getMissingContentHashes, an archive that is too big and a failed
\* massStoreRun.
C15_ExitStatus ==
    pc = "done" =>
      /\ exit_status \in {0, 1, 2}
      /\ exit_status = 0 <=> Stored
      /\ exit_status = 2 <=> NameUnresolved
      /\ PermissionDenied => exit_status = 1
      /\ MissingInputMet => exit_status = 1
      /\ FailedMissing # {} => exit_status = 1
      /\ SizeExceeded => exit_status = 1
      /\ StoreFailed => exit_status = 1

\* a run ended by a massStoreRun that raised
C15_Witness == pc = "done" /\ StoreFailed /\ exit_status = 1

\* C16 (as claimed): massStoreRun is never called with an empty run name,
\* whether the name was given or derived.
C16_NameNotEmpty ==
    \A k \in CallsOf("massStoreRun") : calls[k].arg # <<>>

\* the positions of the input paths that do not exist
MissingInputs == {k \in 1..Len(args_input) : ~PathExists(args_input[k])}
\* the permission check was made and the permission granted
Granted == \E k \in CallsOf("check_permission") : calls[k].arg = TRUE

\* C17: when some input path does not exist and the permission was granted,
\* the loop over the inputs never gets past the first such path, so
\* getMissingContentHashes and massStoreRun are not called; a run that has
\* ended stopped at that path, with status 1 and the temporary file removed.
C17_MissingInputFails ==
    Granted /\ MissingInputs # {} =>
      LET first == CHOOSE k \in MissingInputs : \A m \in MissingInputs : k <= m
      IN  /\ pc \in {"mkstemp", "assemble", "done"}
          /\ ~Called("getMissingContentHashes")
          /\ ~Called("massStoreRun")
          /\ i < first
          /\ pc = "done" => /\ exit_status = 1
                            /\ ~zip_exists
                            /\ i = first - 1
                            /\ j > Len(files)

\* a run with a given name ended at a second input path that does not exist,
\* after the documents of the first were processed
C17_Witness ==
    /\ pc = "done" /\ exit_status = 1
    /\ ~NameDerived /\ Granted
    /\ MissingInputs = {2}
    /\ i = 1
    /\ docs # <<>>

\* ------------------------------------------------------------- ordering
\* the calls made to the server, in order
RemoteOps == {"check_permission", "getMissingContentHashes", "massStoreRun"}
RemoteCalls == SelectSeq(calls, LAMBDA c : c.op \in RemoteOps)
\* the place of a remote call in the pipeline
StageOf(op) ==
    IF op = "check_permission" THEN 1
    ELSE IF op = "getMissingContentHashes" THEN 2
    ELSE 3
\* whether a remote call gave what the run needs to go on
Succeeded(c) == IF c.op = "check_permission" THEN c.arg = TRUE ELSE c.ok

\* C18: the permission check, getMissingContentHashes and massStoreRun are
\* called at most once each and in that order, each one only after the one
\* before it succeeded, and no remote call follows one that failed; after a
\* massStoreRun that raised the run is over with status 1.
C18_SingleShot ==
    /\ \A a, b \in 1..Len(RemoteCalls) :
         a < b => StageOf(RemoteCalls[a].op) < StageOf(RemoteCalls[b].op)
    /\ \A a \in 1..Len(RemoteCalls) :
         /\ a < Len(RemoteCalls) => Succeeded(RemoteCalls[a])
         /\ StageOf(RemoteCalls[a].op) = a
    /\ StoreFailed => pc = "done" /\ exit_status = 1

\* massStoreRun raised after the two calls before it succeeded
C18_Witness ==
    /\ Len(RemoteCalls) = 3
    /\ StoreFailed
    /\ pc = "done"

\* ---------------------------------------------------------- entry names
\* C19 (as claimed): no two entries of an assembled archive have the same
\* name, so that different report and metadata documents of the batch are
\* stored under different names.
C19_UniqueEntryNames ==
    Assembled =>
      \A a, b \in 1..Len(zipf) : a # b => zipf[a].name # zipf[b].name

\* ------------------------------------------------------------ hash maps
\* the hashes file_to_hash holds
HashesOfPaths == {file_to_hash[f] : f \in DOMAIN file_to_hash}

Rehashed ==
    {hashed[a][1] : a \in {x \in 1..Len(hashed) :
                             \E y \in 1..Len(hashed) : /\ hashed[y][1] = hashed[x][1]
                                                       /\ hashed[y][2] # hashed[x][2]}}
\* the last position in hashed of path f
LastHashingOf(f) == CHOOSE k \in 1..Len(hashed) :
                      hashed[k][1] = f /\ \A m \in (k + 1)..Len(hashed) : hashed[m][1] # f

====
